---- MODULE Spec2Model ----
(***************************************************************************)
(* A model of improver/utilities/save.py: save_netcdf and its helpers      *)
(* _order_cell_methods and _check_metadata, together with the part of the  *)
(* filesystem the function touches (the target path and the temporary      *)
(* path it writes to before renaming).                                     *)
(*                                                                         *)
(* One process is one call of save_netcdf.  Python values are modelled as  *)
(* follows: None is the empty sequence and any other optional value v is   *)
(* <<v>>; a dict is a function whose DOMAIN is its key set; a tuple or     *)
(* list is a sequence; a cube is a record of the metadata the function     *)
(* reads; the loop variable `cube` is an index into the cube list, 0 when  *)
(* the name is not bound.                                                  *)
(***************************************************************************)
EXTENDS Integers, Sequences, FiniteSets, TLC

\* ------------------------------------------------------------------ bounds
MaxCubes == 2
MaxNdim == 3
MaxCellMethods == 3
NBlocks == 2

Procs == {1, 2}

\* ----------------------------------------------------------- python values
None == <<>>
Some(v) == <<v>>

Min(a, b) == IF a < b THEN a ELSE b

\* d.pop(key, None) on a dict: the dict without the key
\* (PopIdentity: a pop that removes nothing)
PopIdentity(d, key) == d
Pop(d, key) == [k \in (DOMAIN d) \ {key} |-> d[k]]

\* seq[:n]
Prefix(s, n) == SubSeq(s, 1, Min(n, Len(s)))

\* [1] * n
RECURSIVE Ones(_)
Ones(n) == IF n <= 0 THEN <<>> ELSE <<1>> \o Ones(n - 1)

\* --------------------------------------------------------- cell methods
\* A cell method is <<method, coord_name>>, each a rank in the alphabetical
\* order of the names; cell methods compare as tuples of their fields.
CellMethods == {<<1, 1>>, <<1, 2>>, <<2, 1>>}

CmLess(a, b) == a[1] < b[1] \/ (a[1] = b[1] /\ a[2] < b[2])
CmLeq(a, b) == a = b \/ CmLess(a, b)

\* set(seq)
ToSet(s) == {s[k] : k \in DOMAIN s}

\* sorted(iterable of distinct values), smallest first
RECURSIVE Sorted(_)
Sorted(S) ==
    IF S = {} THEN <<>>
    ELSE LET m == CHOOSE x \in S : \A y \in S : CmLeq(x, y)
         IN  <<m>> \o Sorted(S \ {m})

\* insertion of x into a sorted sequence, keeping equal elements
RECURSIVE Insert(_, _)
Insert(x, s) ==
    IF s = <<>> THEN <<x>>
    ELSE IF CmLess(x, Head(s)) THEN <<x>> \o s
    ELSE <<Head(s)>> \o Insert(x, Tail(s))

\* sorted(cell_methods) without the set() of line 29
RECURSIVE SortKeepingDuplicates(_)
SortKeepingDuplicates(s) ==
    IF s = <<>> THEN <<>> ELSE Insert(Head(s), SortKeepingDuplicates(Tail(s)))

\* _order_cell_methods: the value assigned to cube.cell_methods
OrderCellMethods(cell_methods) == Sorted(ToSet(cell_methods))

\* ------------------------------------------------------------- metadata
Units == {"K", "no_unit", "unknown"}

\* cf_units.Unit(units).is_unknown()
\* (NeverUnknown: a unit check that accepts every unit)
NeverUnknown(units) == FALSE
IsUnknown(units) == units = "unknown"

\* check_mandatory_standards(cube) returns without raising
CheckMandatoryStandards(cube) == cube.standards_ok

\* --------------------------------------------------------- attribute keys
AttrKeys == {"title", "mosg__grid_type", "least_significant_digit", "comment"}

AttrValue(key) == IF key = "least_significant_digit" THEN 3 ELSE 0

\* "mosg__" in key
HasMosg(key) == key \in {"mosg__grid_type"}

GlobalAllowList ==
    {"title", "um_version", "grid_id", "source", "Conventions", "institution", "history"}

AttrDict(K) == [k \in K |-> AttrValue(k)]

\* ------------------------------------------------------------------ cubes
DimValues == {2, 3}

Shapes == UNION {[1..n -> DimValues] : n \in 1..MaxNdim}

CellMethodSeqs == UNION {[1..n -> CellMethods] : n \in 0..MaxCellMethods}

DefaultCube ==
    [shape |-> <<2, 2>>, units |-> "K", standards_ok |-> TRUE,
     attributes |-> AttrDict({}), cell_methods |-> <<>>]

Ndim(cube) == Len(cube.shape)

\* ------------------------------------------------------------- arguments
\* str(filename) and str(filename) + ".tmp": a path is a sequence of parts
Filename == <<"out.nc">>

\* (FtmpInPlace: writing to the target path itself)
FtmpInPlace(filename) == filename
Ftmp(filename) == filename \o <<".tmp">>

Paths == {Filename, Ftmp(Filename)}

DefaultArg ==
    [kind |-> "CubeList", cubes |-> <<>>, compression_level |-> 1,
     least_significant_digit |-> None, fill_value |-> None]

Batches(C, n) == UNION {[1..k -> C] : k \in 0..n}

KindsFor(b) ==
    IF Len(b) = 1 THEN {"Cube", "CubeList", "iterable"} ELSE {"CubeList", "iterable"}

\* batches of at most two cubes that differ in shape
ShapeArgs ==
    {[DefaultArg EXCEPT !.cubes = b] :
        b \in Batches({[DefaultCube EXCEPT !.shape = s] : s \in Shapes}, 2)}

\* batches whose cubes differ in attributes; all cubes of one shape, or the
\* last cube of another shape
AttrBatches ==
    {[j \in DOMAIN ks |->
        [DefaultCube EXCEPT !.attributes = AttrDict(ks[j]),
                            !.shape = IF odd /\ j = Len(ks) THEN <<3, 2>> ELSE <<2, 2>>]] :
        ks \in Batches(SUBSET AttrKeys, MaxCubes), odd \in BOOLEAN}

AttrArgs ==
    {[DefaultArg EXCEPT !.cubes = b, !.least_significant_digit = l] :
        b \in AttrBatches, l \in {None, Some(2)}}

\* pairs of cubes that differ in cell methods
MethodArgs ==
    {[DefaultArg EXCEPT !.cubes = <<[DefaultCube EXCEPT !.cell_methods = c1],
                                    [DefaultCube EXCEPT !.cell_methods = c2]>>] :
        c1 \in CellMethodSeqs, c2 \in CellMethodSeqs}

\* batches whose cubes differ in units and standards, any compression level
CompressionLevels == -1..10

CheckBatches ==
    Batches({[DefaultCube EXCEPT !.units = u, !.standards_ok = ok] :
                u \in Units, ok \in BOOLEAN}, MaxCubes)

CheckArgs ==
    UNION {{[DefaultArg EXCEPT !.cubes = b, !.compression_level = c, !.kind = k] :
                c \in CompressionLevels, k \in KindsFor(b)} : b \in CheckBatches}

PlainArgs ==
    {[DefaultArg EXCEPT !.cubes = b, !.compression_level = c, !.fill_value = f] :
        b \in Batches({DefaultCube, [DefaultCube EXCEPT !.units = "unknown"]}, 1),
        c \in {0, 1, 10}, f \in {None, Some(0)}}

\* ------------------------------------------------------------ filesystem
\* A file is a sequence of NBlocks blocks; a block holds 0 when nothing has
\* been written to it since the file was created or truncated, the number
\* of the process that wrote it, or Old for data from before any call.
Old == Cardinality(Procs) + 1

Empty == [b \in 1..NBlocks |-> 0]
Complete(p) == [b \in 1..NBlocks |-> p]
OldFile == [b \in 1..NBlocks |-> Old]
StaleTmp == [b \in 1..NBlocks |-> IF b = 1 THEN Old ELSE 0]

\* one inode per directory entry and per open handle at most
Inodes == 1..(Cardinality(Paths) + Cardinality(Procs))

\* dir: path -> inode (0: no such file); files: inode -> content
FsStates ==
    {[dir |-> [q \in Paths |-> IF q = Filename THEN (IF hasOld THEN 1 ELSE 0)
                                               ELSE (IF hasTmp THEN 2 ELSE 0)],
      files |-> [n \in Inodes |-> IF n = 1 /\ hasOld THEN OldFile
                                  ELSE IF n = 2 /\ hasTmp THEN StaleTmp
                                  ELSE Empty]] :
        hasOld \in BOOLEAN, hasTmp \in BOOLEAN}

EmptyFs == CHOOSE f \in FsStates : \A q \in Paths : f.dir[q] = 0

\* content at a path, None when there is no such file
Content(d, f, q) == IF d[q] = 0 THEN None ELSE Some(f[d[q]])

\* an inode lives while a directory entry or an open handle refers to it
Live(d, h) == {d[q] : q \in Paths} \cup {h[p] : p \in Procs}
Gc(d, h, f) == [n \in Inodes |-> IF n \in Live(d, h) THEN f[n] ELSE Empty]
FreshInode(d, h) == CHOOSE n \in Inodes : n \notin Live(d, h) /\ \A m \in 1..(n - 1) : m \in Live(d, h)

\* ----------------------------------------------------- steps of save_netcdf
\* cubelist after lines 92-95
CubeListOf(a) == IF a.kind = "Cube" THEN <<a.cubes[1]>> ELSE a.cubes

\* cube.shape[:2], the element of the set built on line 109
ShapeKey(cube) == Prefix(cube.shape, 2)

\* chunksizes for the cube chosen on line 110
ChunkSizes(cube) ==
    IF Ndim(cube) >= 2
    THEN Some(Ones(Ndim(cube) - 2) \o <<cube.shape[Ndim(cube) - 1], cube.shape[Ndim(cube)]>>)
    ELSE None

\* global_keys after line 127, as a set; c is the cube the name `cube` is bound to
GlobalKeysWithoutMosg(c) == GlobalAllowList
GlobalKeys(c) == GlobalAllowList \cup {key \in DOMAIN c.attributes : HasMosg(key)}

\* local_keys, lines 129-134
LocalKeys(cl, gk) == {key \in UNION {DOMAIN cl[j].attributes : j \in DOMAIN cl} : key \notin gk}

\* compression_level in range(10)
InRange10(level) == level \in 0..9

VARIABLES
    active,         \* the processes that call save_netcdf
    arg,            \* the arguments of each call, as passed
    prior,          \* content at each path before any call
    pc,             \* position of each call
    cubelist,       \* the CubeList, cubes mutated in place
    i,              \* 1-based position of the loop on line 97
    cube,           \* index the name `cube` is bound to, 0 when unbound
    chunksizes, warned, global_keys, local_keys,
    error,          \* the exception a call raised
    save_call,      \* keyword arguments of iris.fileformats.netcdf.save, None before the call
    save_result,    \* "none", "running", "ok" or "failed"
    renamed,        \* outcome of os.rename: "no", "ok" or "failed"
    handle,         \* inode each writer has open, 0 when none
    written,        \* blocks each writer has written
    dir, files      \* the filesystem

locals == <<cubelist, i, cube, chunksizes, warned, global_keys, local_keys>>
io == <<save_call, save_result, renamed, handle, written, dir, files>>
vars == <<active, arg, prior, pc, error, locals, io>>

InitLocals ==
    /\ pc = [p \in Procs |-> IF p \in active THEN "start" ELSE "idle"]
    /\ cubelist = [p \in Procs |-> <<>>]
    /\ i = [p \in Procs |-> 0]
    /\ cube = [p \in Procs |-> 0]
    /\ chunksizes = [p \in Procs |-> None]
    /\ warned = [p \in Procs |-> FALSE]
    /\ global_keys = [p \in Procs |-> {}]
    /\ local_keys = [p \in Procs |-> {}]
    /\ error = [p \in Procs |-> "none"]
    /\ save_call = [p \in Procs |-> None]
    /\ save_result = [p \in Procs |-> "none"]
    /\ renamed = [p \in Procs |-> "no"]
    /\ handle = [p \in Procs |-> 0]
    /\ written = [p \in Procs |-> 0]
    /\ prior = [q \in Paths |-> Content(dir, files, q)]

\* one call
Init ==
    /\ active = {1}
    /\ \E fam \in {"shape", "attr", "method", "check", "plain"} :
          \E a \in (CASE fam = "shape" -> ShapeArgs
                       [] fam = "attr" -> AttrArgs
                       [] fam = "method" -> MethodArgs
                       [] fam = "check" -> CheckArgs
                       [] fam = "plain" -> PlainArgs) :
            /\ arg = [p \in Procs |-> IF p = 1 THEN a ELSE DefaultArg]
            /\ \E fs \in (IF fam = "plain" THEN FsStates ELSE {EmptyFs}) :
                  dir = fs.dir /\ files = fs.files
    /\ InitLocals

\* two concurrent calls with the same filename
InitConc ==
    /\ active = Procs
    /\ arg \in [Procs -> PlainArgs]
    /\ \E fs \in FsStates : dir = fs.dir /\ files = fs.files
    /\ InitLocals

Raise(p, e) ==
    /\ pc' = [pc EXCEPT ![p] = "raised"]
    /\ error' = [error EXCEPT ![p] = e]

\* lines 92-95
Normalise(p) ==
    /\ pc[p] = "start"
    /\ cubelist' = [cubelist EXCEPT ![p] = CubeListOf(arg[p])]
    /\ i' = [i EXCEPT ![p] = 1]
    /\ pc' = [pc EXCEPT ![p] = "loop"]
    /\ UNCHANGED <<active, arg, prior, error, cube, chunksizes, warned, global_keys, local_keys, io>>

\* one iteration of the loop on lines 97-104
ValidateCube(p) ==
    /\ pc[p] = "loop"
    /\ i[p] <= Len(cubelist[p])
    /\ LET c == cubelist[p][i[p]]
           ordered == [c EXCEPT !.cell_methods = OrderCellMethods(c.cell_methods)]
           popped == [ordered EXCEPT !.attributes = Pop(ordered.attributes, "least_significant_digit")]
       IN  /\ cube' = [cube EXCEPT ![p] = i[p]]
           /\ IF ~CheckMandatoryStandards(ordered)
              THEN /\ Raise(p, "ValueError: mandatory standards")
                   /\ cubelist' = [cubelist EXCEPT ![p][i[p]] = ordered]
                   /\ i' = i
              ELSE IF IsUnknown(ordered.units)
              THEN /\ Raise(p, "ValueError: unknown units")
                   /\ cubelist' = [cubelist EXCEPT ![p][i[p]] = ordered]
                   /\ i' = i
              ELSE /\ cubelist' = [cubelist EXCEPT ![p][i[p]] = popped]
                   /\ i' = [i EXCEPT ![p] = i[p] + 1]
                   /\ UNCHANGED <<pc, error>>
    /\ UNCHANGED <<active, arg, prior, chunksizes, warned, global_keys, local_keys, io>>

\* lines 106-116, once the loop has ended
PlanChunks(p) ==
    /\ pc[p] = "loop"
    /\ i[p] > Len(cubelist[p])
    /\ LET cl == cubelist[p]
       IN  IF Cardinality({ShapeKey(cl[j]) : j \in DOMAIN cl}) = 1
           THEN /\ cube' = [cube EXCEPT ![p] = 1]
                /\ chunksizes' = [chunksizes EXCEPT ![p] = ChunkSizes(cl[1])]
                /\ UNCHANGED warned
           ELSE /\ warned' = [warned EXCEPT ![p] = TRUE]
                /\ UNCHANGED <<cube, chunksizes>>
    /\ pc' = [pc EXCEPT ![p] = "classify"]
    /\ UNCHANGED <<active, arg, prior, error, cubelist, i, global_keys, local_keys, io>>

\* lines 118-134
ClassifyKeys(p) ==
    /\ pc[p] = "classify"
    /\ IF cube[p] = 0
       THEN /\ Raise(p, "UnboundLocalError")
            /\ UNCHANGED <<global_keys, local_keys>>
       ELSE LET gk == GlobalKeys(cubelist[p][cube[p]])
            IN  /\ global_keys' = [global_keys EXCEPT ![p] = gk]
                /\ local_keys' = [local_keys EXCEPT ![p] = LocalKeys(cubelist[p], gk)]
                /\ pc' = [pc EXCEPT ![p] = "compress"]
                /\ UNCHANGED error
    /\ UNCHANGED <<active, arg, prior, cubelist, i, cube, chunksizes, warned, io>>

\* lines 136-139
CheckCompression(p) ==
    /\ pc[p] = "compress"
    /\ IF InRange10(arg[p].compression_level)
       THEN pc' = [pc EXCEPT ![p] = "save"] /\ UNCHANGED error
       ELSE Raise(p, "ValueError: compression level")
    /\ UNCHANGED <<active, arg, prior, locals, io>>

\* keyword arguments on lines 143-153
SaveCall(p) ==
    [target |-> Ftmp(Filename),
     local_keys |-> local_keys[p],
     complevel |-> arg[p].compression_level,
     shuffle |-> TRUE,
     zlib |-> arg[p].compression_level > 0,
     chunksizes |-> chunksizes[p],
     least_significant_digit |-> arg[p].least_significant_digit,
     fill_value |-> arg[p].fill_value]

\* iris.fileformats.netcdf.save creates or truncates its target
SaveOpen(p) ==
    /\ pc[p] = "save"
    /\ LET t == SaveCall(p).target
       IN  IF dir[t] # 0
           THEN /\ handle' = [handle EXCEPT ![p] = dir[t]]
                /\ files' = [files EXCEPT ![dir[t]] = Empty]
                /\ UNCHANGED dir
           ELSE LET n == FreshInode(dir, handle)
                IN  /\ handle' = [handle EXCEPT ![p] = n]
                    /\ dir' = [dir EXCEPT ![t] = n]
                    /\ files' = [files EXCEPT ![n] = Empty]
    /\ save_call' = [save_call EXCEPT ![p] = Some(SaveCall(p))]
    /\ save_result' = [save_result EXCEPT ![p] = "running"]
    /\ written' = [written EXCEPT ![p] = 0]
    /\ pc' = [pc EXCEPT ![p] = "writing"]
    /\ UNCHANGED <<active, arg, prior, error, locals, renamed>>

\* the writer writes its next block through its handle
SaveWrite(p) ==
    /\ pc[p] = "writing"
    /\ written[p] < NBlocks
    /\ files' = [files EXCEPT ![handle[p]][written[p] + 1] = p]
    /\ written' = [written EXCEPT ![p] = written[p] + 1]
    /\ UNCHANGED <<active, arg, prior, pc, error, locals, save_call, save_result, renamed, handle, dir>>

\* the writer closes the file and save returns
SaveReturn(p) ==
    /\ pc[p] = "writing"
    /\ written[p] = NBlocks
    /\ handle' = [handle EXCEPT ![p] = 0]
    /\ files' = Gc(dir, handle', files)
    /\ save_result' = [save_result EXCEPT ![p] = "ok"]
    /\ pc' = [pc EXCEPT ![p] = "rename"]
    /\ UNCHANGED <<active, arg, prior, error, locals, save_call, renamed, written, dir>>

\* save raises: before creating the file, or at any point while writing
SaveFail(p) ==
    /\ pc[p] \in {"save", "writing"}
    /\ save_call' = [save_call EXCEPT ![p] = Some(SaveCall(p))]
    /\ handle' = [handle EXCEPT ![p] = 0]
    /\ files' = Gc(dir, handle', files)
    /\ save_result' = [save_result EXCEPT ![p] = "failed"]
    /\ Raise(p, "IOError")
    /\ UNCHANGED <<active, arg, prior, locals, renamed, written, dir>>

\* line 154: os.rename(ftmp, filename)
Rename(p) ==
    /\ pc[p] = "rename"
    /\ LET src == Ftmp(Filename)
       IN  IF dir[src] = 0
           THEN /\ renamed' = [renamed EXCEPT ![p] = "failed"]
                /\ Raise(p, "FileNotFoundError")
                /\ UNCHANGED <<dir, files>>
           ELSE /\ renamed' = [renamed EXCEPT ![p] = "ok"]
                /\ dir' = [q \in Paths |-> IF q = Filename THEN dir[src]
                                           ELSE IF q = src THEN 0 ELSE dir[q]]
                /\ files' = Gc(dir', handle, files)
                /\ pc' = [pc EXCEPT ![p] = "done"]
                /\ UNCHANGED error
    /\ UNCHANGED <<active, arg, prior, locals, save_call, save_result, handle, written>>

Next ==
    \/ \E p \in active : Normalise(p)
    \/ \E p \in active : ValidateCube(p)
    \/ \E p \in active : PlanChunks(p)
    \/ \E p \in active : ClassifyKeys(p)
    \/ \E p \in active : CheckCompression(p)
    \/ \E p \in active : SaveOpen(p)
    \/ \E p \in active : SaveWrite(p)
    \/ \E p \in active : SaveReturn(p)
    \/ \E p \in active : SaveFail(p)
    \/ \E p \in active : Rename(p)

Spec == Init /\ [][Next]_vars
SpecConc == InitConc /\ [][Next]_vars

\* ------------------------------------------------------------ properties
InputCubes(p) == CubeListOf(arg[p])
AfterClassify == {"compress", "save", "writing", "rename", "done"}
TrailingTwo(shape) == SubSeq(shape, Len(shape) - 1, Len(shape))
\* c.shape[-2:]
TrailingShapeKey(c) == SubSeq(c.shape, Len(c.shape) - Min(2, Len(c.shape)) + 1, Len(c.shape))
AllKeys(cl) == UNION {DOMAIN cl[j].attributes : j \in DOMAIN cl}
\* the cubes the loop on line 97 has finished with
Processed(p) == {j \in DOMAIN cubelist[p] : j < i[p]}

\* C1: during and after a single call the target path holds what it held
\* before the call or the complete new output; the external write targets
\* only filename + ".tmp"; os.rename runs only after the write has returned
\* successfully; a failed write raises and leaves the target path alone.
AtomicWrite ==
    \A p \in active :
        /\ Content(dir, files, Filename) \in {prior[Filename], Some(Complete(p))}
        /\ save_call[p] # None => save_call[p][1].target = Filename \o <<".tmp">>
        /\ renamed[p] # "no" => save_result[p] = "ok"
        /\ save_result[p] = "failed" =>
              /\ renamed[p] = "no"
              /\ pc[p] = "raised" /\ error[p] = "IOError"
              /\ Content(dir, files, Filename) = prior[Filename]

\* a write that failed after writing a block, the target holding old data
AtomicWriteWitness ==
    /\ save_result[1] = "failed"
    /\ written[1] >= 1
    /\ prior[Filename] = Some(OldFile)
    /\ Content(dir, files, Filename \o <<".tmp">>) \notin {None, Some(Complete(1))}

\* C2: with two concurrent calls on one filename, the target path never
\* holds partially written content, every rename publishes its writer's
\* complete output, and once both are done the target holds the complete
\* output of one of the writers.
ConcurrentSavesAtomic ==
    /\ Content(dir, files, Filename) \in {prior[Filename]} \cup {Some(Complete(p)) : p \in active}
    /\ \A p \in active : renamed[p] # "failed"
    /\ (\A p \in active : pc[p] = "done") =>
          \E p \in active : Content(dir, files, Filename) = Some(Complete(p))

\* C3: a compression level outside 0..9, with cubes that all pass the
\* metadata checks, ends in the compression-level error and neither the
\* write nor the rename is invoked.
BadCompressionIsConfigError ==
    \A p \in active :
        (/\ arg[p].compression_level \notin 0..9
         /\ \A j \in DOMAIN InputCubes(p) :
               InputCubes(p)[j].standards_ok /\ InputCubes(p)[j].units # "unknown")
        => /\ pc[p] \notin {"save", "writing", "rename", "done"}
           /\ pc[p] = "raised" => error[p] = "ValueError: compression level"
           /\ save_call[p] = None /\ renamed[p] = "no"
           /\ Content(dir, files, Filename) = prior[Filename]

\* C4: a batch with a cube of unknown units at any position never gets past
\* the validation loop: it ends in a metadata error, and neither the write
\* nor the rename is invoked.
UnknownUnitsAbortBatch ==
    \A p \in active :
        (\E j \in DOMAIN InputCubes(p) : InputCubes(p)[j].units = "unknown")
        => /\ pc[p] \in {"start", "loop", "raised"}
           /\ pc[p] = "raised" =>
                error[p] \in {"ValueError: unknown units", "ValueError: mandatory standards"}
           /\ save_call[p] = None /\ save_result[p] = "none" /\ renamed[p] = "no"
           /\ \A q \in Paths : Content(dir, files, q) = prior[q]

\* the second cube of a batch, after a valid first cube, raised the error
UnknownUnitsWitness ==
    /\ pc[1] = "raised" /\ error[1] = "ValueError: unknown units"
    /\ Len(InputCubes(1)) >= 2 /\ cube[1] = 2
    /\ InputCubes(1)[1].units = "K"

\* C5: for a non-empty batch the global keys are the allow-list united with
\* the mosg__ keys of every cube, and the local keys are all other keys of
\* all cubes.
KeysClassifiedOverAllCubes ==
    \A p \in active :
        (pc[p] \in AfterClassify /\ Len(cubelist[p]) > 0)
        => LET all == AllKeys(cubelist[p])
               gk == GlobalAllowList \cup {k \in all : HasMosg(k)}
           IN  /\ global_keys[p] = gk
               /\ local_keys[p] = all \ gk
               /\ save_call[p] # None => save_call[p][1].local_keys = all \ gk

\* C6: for a non-empty batch of cubes of two or more dimensions that agree on
\* their trailing two dimensions the chunk shape is [1]*(ndim-2) + [H, W]
\* of the first cube and there is no warning; a warning means the cubes
\* disagree on their trailing two dimensions.
ChunksFromTrailingShape ==
    \A p \in active :
        (pc[p] \in {"classify"} \cup AfterClassify /\ Len(cubelist[p]) > 0)
        => LET cl == cubelist[p]
               agree == \A j \in DOMAIN cl : /\ Ndim(cl[j]) >= 2
                                            /\ TrailingTwo(cl[j].shape) = TrailingTwo(cl[1].shape)
           IN  /\ agree => /\ chunksizes[p] = Some(Ones(Ndim(cl[1]) - 2) \o TrailingTwo(cl[1].shape))
                           /\ ~warned[p]
               /\ warned[p] => \E j, k \in DOMAIN cl :
                                  TrailingShapeKey(cl[j]) # TrailingShapeKey(cl[k])

\* C7: a call with an empty collection does not end in an internal fault.
EmptyBatchNoInternalFault ==
    \A p \in active : Len(InputCubes(p)) = 0 => error[p] # "UnboundLocalError"

\* C8: once a cube has been through _order_cell_methods its cell methods
\* have no duplicates, are exactly the distinct methods it had, are in
\* sorted order and are a fixed point of the operation; two cubes that had
\* the same set of methods have the same sequence.
CellMethodsCanonical ==
    \A p \in active :
        /\ \A j \in Processed(p) :
              LET before == InputCubes(p)[j].cell_methods
                  after == cubelist[p][j].cell_methods
              IN  /\ \A k, l \in DOMAIN after : k < l => CmLess(after[k], after[l])
                  /\ ToSet(after) = ToSet(before)
                  /\ OrderCellMethods(after) = after
        /\ \A j, k \in Processed(p) :
              ToSet(InputCubes(p)[j].cell_methods) = ToSet(InputCubes(p)[k].cell_methods)
              => cubelist[p][j].cell_methods = cubelist[p][k].cell_methods

\* two cubes with the same methods attached in different orders, one with a
\* duplicate, have both been processed
CellMethodsWitness ==
    /\ Processed(1) = {1, 2}
    /\ LET b1 == InputCubes(1)[1].cell_methods
           b2 == InputCubes(1)[2].cell_methods
       IN  /\ b1 # b2 /\ ToSet(b1) = ToSet(b2)
           /\ Len(b1) = 3 /\ Cardinality(ToSet(b1)) = 2
           /\ b1[1] = b1[3] /\ CmLess(b1[2], b1[1])
           /\ cubelist[1][1].cell_methods = cubelist[1][2].cell_methods

\* C9: from the moment the external write is invoked no cube carries a
\* least_significant_digit attribute, and every other attribute of every
\* cube is as it was passed in.
NoStalePrecision ==
    \A p \in active :
        save_call[p] # None =>
            \A j \in DOMAIN cubelist[p] :
                LET before == InputCubes(p)[j].attributes
                    after == cubelist[p][j].attributes
                IN  /\ "least_significant_digit" \notin DOMAIN after
                    /\ DOMAIN after = (DOMAIN before) \ {"least_significant_digit"}
                    /\ \A k \in DOMAIN after : after[k] = before[k]

\* a save with a new precision succeeded on a cube that carried an old one
NoStalePrecisionWitness ==
    /\ pc[1] = "done"
    /\ arg[1].least_significant_digit = Some(2)
    /\ \E j \in DOMAIN InputCubes(1) :
          {"least_significant_digit", "comment"} \subseteq DOMAIN InputCubes(1)[j].attributes

\* C10: a chunk shape passed to the writer fits every cube of the batch.
ChunksFitEveryCube ==
    \A p \in active :
        (save_call[p] # None /\ save_call[p][1].chunksizes # None)
        => LET ch == save_call[p][1].chunksizes[1]
           IN  \A j \in DOMAIN cubelist[p] :
                   /\ Len(ch) = Ndim(cubelist[p][j])
                   /\ TrailingTwo(ch) = TrailingTwo(cubelist[p][j].shape)

====
